---- MODULE Spec2Model ----
(***************************************************************************)
(* State-machine model of two parts of the Hedera JavaScript SDK:          *)
(*                                                                         *)
(*   - FileAppendTransaction (src/unnamed/part_000): setters, freezeWith,  *)
(*     execute and executeAll over a chunked payload.  Specification Spec. *)
(*   - Transaction._waitForReceipt (src/src/Transaction.ts): the receipt   *)
(*     polling loop.  Specifications SpecReceipt and SpecReceiptFair.      *)
(*   - Transaction (src/src/Transaction.ts): fromBytes, toBytes, sign,     *)
(*     signWith and execute, with getReceipt.  Specification SpecTx.       *)
(*   - isPrecheckCodeOk and throwIfExceptional (src/src/errors.ts).        *)
(*     Specification SpecErrors.                                           *)
(*                                                                         *)
(* The parts share the module; each specification leaves the variables of  *)
(* the parts it does not run unchanged.                                    *)
(***************************************************************************)
EXTENDS Integers, Sequences, FiniteSets, TLC

VARIABLES
    \* ---- FileAppendTransaction ----
    chunkSize,        \* CHUNK_SIZE, fixed for a behaviour
    fileId,           \* this._fileId (NullFileId when null)
    contents,         \* this._contents: [isNull, bytes]
    maxChunks,        \* this._maxChunks
    frozen,           \* super._isFrozen()
    transactionId,    \* this._transactionId (NullId when null)
    transactionIds,   \* this._transactionIds
    transactions,     \* this._transactions: the requests built at freeze
    nodeCount,        \* this._nodeIds.length
    startIndex,       \* this._startIndex
    nextGroupIndex,   \* this._nextGroupIndex
    signedByOperator, \* whether signWithOperator has run
    pc,               \* position of the running execute / executeAll call
    callKind,         \* "execute" or "executeAll": the running or last call
    transactionCount, \* local of executeAll
    responses,        \* local of executeAll
    response,         \* local of executeAll: the response being awaited on
    result,           \* what the last call delivered to its caller
    dispatched,       \* the requests the running or last call sent, in order
    confirmed,        \* identities whose receipt was awaited and found successful
    calls,            \* number of execute / executeAll calls begun
    frozenAtCall,     \* super._isFrozen() when the running or last call began
    \* ---- Transaction (receipt polling) ----
    txnValidStart,        \* this._txnId.getTransactionvalidstart(): [seconds, nanos]
    validDurationSeconds, \* this._validDurationSeconds
    source,               \* the receipt source: pending polls, then a final answer
    now,                  \* Date.now(), in ms
    callTime,             \* Date.now() when getReceipt was called
    rpc,                  \* position of the getReceipt call
    validUntilMs,         \* local of _waitForReceipt
    attempt,              \* local of _waitForReceipt
    delay,                \* local of _waitForReceipt: the last backoff computed
    random,               \* the last Math.random(), as a numerator over RandomDen
    polls,                \* number of _getReceipt calls issued
    lastStatus,           \* receipt.getStatus() of the last poll that returned
    lastLatency,          \* how long the last poll that returned was in flight
    outcome,              \* what getReceipt delivered to its caller
    \* ---- Transaction (fields, sign, execute) and errors ----
    txnNode,          \* this._node: [shard, realm, num]
    inner,            \* this._inner: [bodybytes, sigmap]
    txnAccountId,     \* this._txnId.getAccountid()
    method,           \* this._method
    signs,            \* number of sign / signWith calls begun
    pendingSigns,     \* signWith calls awaiting their signer, oldest first
    overtaken,        \* a signer resolved while that of an earlier call was awaited
    epc,              \* position of the execute call
    executes,         \* number of execute calls begun
    networkCalls,     \* the unary calls execute issued, in order
    executed,         \* what the last execute delivered to its caller
    decoded,          \* what the last Transaction.fromBytes delivered
    checked,          \* the last throwIfExceptional call and what it threw
    \* ---- AccountId ----
    entity            \* the AccountId at hand, its string and what was parsed

faVars == <<chunkSize, fileId, contents, maxChunks, frozen, transactionId,
            transactionIds, transactions, nodeCount, startIndex, nextGroupIndex,
            signedByOperator, pc, callKind, transactionCount, responses, response,
            result, dispatched, confirmed, calls, frozenAtCall>>

rcVars == <<txnValidStart, validDurationSeconds, source, now, callTime, rpc,
            validUntilMs, attempt, delay, random, polls, lastStatus, lastLatency,
            outcome>>

txVars == <<txnNode, inner, txnAccountId, method, signs, pendingSigns, overtaken, epc,
            executes, networkCalls, executed, decoded, checked>>

idVars == <<entity>>

vars == <<faVars, rcVars, txVars, idVars>>

----------------------------------------------------------------------------
\* Bounds of the model

MaxLen == 5
MaxChunkSize == 2
MaxChunksArg == 3
MaxNodes == 2
MaxCalls == 2

----------------------------------------------------------------------------
\* Values

\* new FileAppendTransaction(): this._maxChunks = 10
DefaultMaxChunks == 10

\* seconds added to the valid start from one chunk identity to the next
ChunkOffsetSeconds == 10

\* a null TransactionId; account numbers of real payers start at 1
NullId == [accountId |-> 0, seconds |-> 0, nanos |-> 0]

NullContents == [isNull |-> TRUE, bytes |-> <<>>]

\* a null FileId; file numbers of real files start at 1
NullFileId == [shard |-> 0, realm |-> 0, num |-> 0]

\* the FileId values setFileId is called with
FileIds == {[shard |-> 0, realm |-> 0, num |-> 5]}

\* a Uint8Array of length n; the byte at position i is i, so that every
\* position is told apart
Bytes(n) == [i \in 1..n |-> i]

\* the clients a call may be given: the operator account (0: no operator),
\* the valid start a generated TransactionId gets, and the number of nodes
Clients ==
    [operatorAccountId : {0, 1},
     seconds : {100},
     nanos : {7},
     nodeCount : 1..MaxNodes]

NoResult == [kind |-> "none", value |-> <<>>, error |-> ""]

\* a promise fulfilled with `value`
Resolve(value) == [kind |-> "value", value |-> value, error |-> ""]

\* a promise rejected with `err`, the locals of the call (its `responses`)
\* included in what is in scope when it throws
RejectKeepingPrefix(err, collected) == [kind |-> "error", value |-> collected, error |-> err]

\* an exception leaving executeAll: the caller gets the error alone
Reject(err, collected) == [kind |-> "error", value |-> <<>>, error |-> err]

----------------------------------------------------------------------------
\* FileAppendTransaction._makeTransactionData, and the request around it

\* contents.subarray(start, end) with 0-based start (inclusive), end (exclusive)
Subarray(bytes, start, end) ==
    [i \in 1..(IF end > start THEN end - start ELSE 0) |-> bytes[start + i]]

MakeTransactionDataFromZero(c, start, size) ==
    LET length == IF ~c.isNull THEN Len(c.bytes) ELSE 0
        endIndex == IF size > length THEN length ELSE size
    IN  [fileID |-> fileId,
         contentsNull |-> c.isNull,
         contents |-> IF ~c.isNull THEN Subarray(c.bytes, 0, endIndex) ELSE <<>>]

\* _makeTransactionData(): the file id and the bytes of the current chunk,
\* contents.subarray(startIndex, min(startIndex + CHUNK_SIZE, length))
MakeTransactionData(c, start, size) ==
    LET length == IF ~c.isNull THEN Len(c.bytes) ELSE 0
        endIndex == IF start + size > length THEN length ELSE start + size
    IN  [fileID |-> fileId,
         contentsNull |-> c.isNull,
         contents |-> IF ~c.isNull THEN Subarray(c.bytes, start, endIndex) ELSE <<>>]

\* Transaction._makeTransaction(nodeAccountId): the request for one node,
\* carrying the current transaction id and the current data
MakeTransaction(node, id, c, start, size) ==
    [node |-> node, transactionId |-> id, data |-> MakeTransactionData(c, start, size)]

----------------------------------------------------------------------------
\* freezeWith

ChunksFloorOnly(length, size) == length \div size

\* Math.floor((length + (CHUNK_SIZE - 1)) / CHUNK_SIZE)
Chunks(length, size) == (length + (size - 1)) \div size

\* new TransactionId(id.accountId, new Timestamp(seconds.add(10), nanos))
NextTransactionId(id) ==
    [accountId |-> id.accountId,
     seconds |-> id.seconds + ChunkOffsetSeconds,
     nanos |-> id.nanos]

\* the value of nextTransactionId at the top of loop iteration `chunk`
RECURSIVE ChunkTransactionId(_, _)
ChunkTransactionId(id, chunk) ==
    IF chunk = 0 THEN id ELSE NextTransactionId(ChunkTransactionId(id, chunk - 1))

\* the requests pushed by the loop of freezeWith: for every chunk, one per node
ChunkTransactions(id, c, size, chunks, nodes) ==
    [k \in 1..(chunks * nodes) |->
        LET chunk == (k - 1) \div nodes
            node == ((k - 1) % nodes) + 1
        IN  MakeTransaction(node, ChunkTransactionId(id, chunk), c, chunk * size, size)]

\* the list this._transactionIds after the loop: it starts as [transactionId]
\* and every iteration pushes nextTransactionId
ChunkTransactionIds(id, chunks) ==
    <<id>> \o [k \in 1..chunks |-> ChunkTransactionId(id, k - 1)]

\* Transaction.freezeWith of the base class: the state after it, or the error
\* it throws.  It fixes the node list and the transaction id and builds one
\* request per node.
SuperFreezeWith(client) ==
    IF frozen THEN [error |-> "AlreadyFrozen"]
    ELSE IF transactionId = NullId /\ client.operatorAccountId = 0
         THEN [error |-> "MissingIdentity"]
    ELSE LET id == IF transactionId # NullId THEN transactionId
                   ELSE [accountId |-> client.operatorAccountId,
                         seconds |-> client.seconds, nanos |-> client.nanos]
         IN  [error |-> "",
              transactionId |-> id,
              nodeCount |-> client.nodeCount,
              transactions |->
                  [k \in 1..client.nodeCount |->
                      MakeTransaction(k, id, contents, startIndex, chunkSize)]]

SuperThrewAfterIdsReset(err) ==
    [error |-> err, frozen |-> frozen, transactionId |-> transactionId,
     transactionIds |-> <<transactionId>>, transactions |-> transactions,
     nodeCount |-> nodeCount, startIndex |-> startIndex]

\* super.freezeWith(client) is the first statement of freezeWith: when it
\* throws, no statement after it has run
SuperThrew(err) ==
    [error |-> err, frozen |-> frozen, transactionId |-> transactionId,
     transactionIds |-> transactionIds, transactions |-> transactions,
     nodeCount |-> nodeCount, startIndex |-> startIndex]

\* FileAppendTransaction.freezeWith(client): the error it throws ("" for none)
\* and the fields it leaves behind
FreezeOutcome(client) ==
    LET s == SuperFreezeWith(client)
    IN
    IF s.error # "" THEN SuperThrew(s.error)
    ELSE IF s.transactionId = NullId
    THEN [error |-> "TransactionIdNotSet", frozen |-> TRUE,
          transactionId |-> s.transactionId, transactionIds |-> transactionIds,
          transactions |-> s.transactions, nodeCount |-> s.nodeCount,
          startIndex |-> startIndex]
    ELSE
    LET single ==
            [error |-> "", frozen |-> TRUE, transactionId |-> s.transactionId,
             transactionIds |-> <<s.transactionId>>,
             transactions |-> s.transactions, nodeCount |-> s.nodeCount,
             startIndex |-> startIndex]
        chunks == Chunks(Len(contents.bytes), chunkSize)
    IN
    IF contents.isNull THEN single
    ELSE IF Len(contents.bytes) < chunkSize THEN single
    ELSE IF chunks > maxChunks
    THEN [single EXCEPT !.error = "TooManyChunks"]
    ELSE [error |-> "", frozen |-> TRUE, transactionId |-> s.transactionId,
          transactionIds |-> ChunkTransactionIds(s.transactionId, chunks),
          transactions |->
              ChunkTransactions(s.transactionId, contents, chunkSize, chunks,
                                s.nodeCount),
          nodeCount |-> s.nodeCount,
          startIndex |-> 0]

ApplyFreeze(o) ==
    /\ frozen' = o.frozen
    /\ transactionId' = o.transactionId
    /\ transactionIds' = o.transactionIds
    /\ transactions' = o.transactions
    /\ nodeCount' = o.nodeCount
    /\ startIndex' = o.startIndex

----------------------------------------------------------------------------
\* a new FileAppendTransaction()

NewFileAppendTransaction ==
    /\ chunkSize \in 1..MaxChunkSize
    /\ fileId = NullFileId
    /\ contents = NullContents
    /\ maxChunks = DefaultMaxChunks
    /\ frozen = FALSE
    /\ transactionId = NullId
    /\ transactionIds = <<>>
    /\ transactions = <<>>
    /\ nodeCount = 0
    /\ startIndex = 0
    /\ nextGroupIndex = 0
    /\ signedByOperator = FALSE
    /\ pc = "idle"
    /\ callKind = "none"
    /\ transactionCount = 0
    /\ responses = <<>>
    /\ response = [transactionId |-> NullId]
    /\ result = NoResult
    /\ dispatched = <<>>
    /\ confirmed = {}
    /\ calls = 0
    /\ frozenAtCall = FALSE

----------------------------------------------------------------------------
\* Operations of FileAppendTransaction.  A call is made only while no other
\* call on the same instance is running.

Callable == pc \in {"idle", "done"}

callLocals == <<transactionCount, responses, response, nextGroupIndex>>
network == <<dispatched, confirmed, calls>>
frozenFields == <<frozen, transactionId, transactionIds, transactions, nodeCount,
                  startIndex>>

\* Transaction._requireNotFrozen of the base class
RequireNotFrozen == ~frozen

SetFileIdUnchecked(f) ==
    /\ Callable
    /\ callKind' = "setFileId"
    /\ pc' = "done"
    /\ fileId' = f
    /\ result' = Resolve(<<>>)
    /\ UNCHANGED <<chunkSize, frozenAtCall, contents, maxChunks, frozenFields,
                   signedByOperator, callLocals, network>>
    /\ UNCHANGED rcVars
    /\ UNCHANGED <<txVars, idVars>>

\* setFileId(fileId), called with a FileId
SetFileId(f) ==
    /\ Callable
    /\ callKind' = "setFileId"
    /\ pc' = "done"
    /\ IF RequireNotFrozen
       THEN /\ fileId' = f
            /\ result' = Resolve(<<>>)
       ELSE /\ fileId' = fileId
            /\ result' = Reject("Frozen", <<>>)
    /\ UNCHANGED <<chunkSize, frozenAtCall, contents, maxChunks, frozenFields,
                   signedByOperator, callLocals, network>>
    /\ UNCHANGED rcVars
    /\ UNCHANGED <<txVars, idVars>>

\* setContents(contents)
SetContents(n) ==
    /\ Callable
    /\ callKind' = "setContents"
    /\ pc' = "done"
    /\ IF RequireNotFrozen
       THEN /\ contents' = [isNull |-> FALSE, bytes |-> Bytes(n)]
            /\ result' = Resolve(<<>>)
       ELSE /\ contents' = contents
            /\ result' = Reject("Frozen", <<>>)
    /\ UNCHANGED <<chunkSize, fileId, frozenAtCall, maxChunks, frozenFields,
                   signedByOperator, callLocals, network>>
    /\ UNCHANGED rcVars
    /\ UNCHANGED <<txVars, idVars>>

\* setMaxChunks(maxChunks)
SetMaxChunks(m) ==
    /\ Callable
    /\ callKind' = "setMaxChunks"
    /\ pc' = "done"
    /\ IF RequireNotFrozen
       THEN /\ maxChunks' = m
            /\ result' = Resolve(<<>>)
       ELSE /\ maxChunks' = maxChunks
            /\ result' = Reject("Frozen", <<>>)
    /\ UNCHANGED <<chunkSize, fileId, frozenAtCall, contents, frozenFields,
                   signedByOperator, callLocals, network>>
    /\ UNCHANGED rcVars
    /\ UNCHANGED <<txVars, idVars>>

\* freezeWith(client)
FreezeWith(client) ==
    /\ Callable
    /\ callKind' = "freezeWith"
    /\ pc' = "done"
    /\ LET o == FreezeOutcome(client)
       IN  /\ ApplyFreeze(o)
           /\ result' = IF o.error = "" THEN Resolve(<<>>) ELSE Reject(o.error, <<>>)
    /\ UNCHANGED <<chunkSize, fileId, frozenAtCall, contents, maxChunks,
                   signedByOperator, callLocals, network>>
    /\ UNCHANGED rcVars
    /\ UNCHANGED <<txVars, idVars>>

\* the fields of a transaction that is frozen already, as ApplyFreeze takes them
FrozenAlready ==
    [error |-> "", frozen |-> frozen, transactionId |-> transactionId,
     transactionIds |-> transactionIds, transactions |-> transactions,
     nodeCount |-> nodeCount, startIndex |-> startIndex]

FailWhenNotFrozen(client) ==
    IF ~frozen THEN [FrozenAlready EXCEPT !.error = "NotFrozen"] ELSE FrozenAlready

\* if (!super._isFrozen()) { this.freezeWith(client); }
FreezeWhenNotFrozen(client) ==
    IF ~frozen THEN FreezeOutcome(client) ELSE FrozenAlready

\* execute(client) and executeAll(client), up to the first dispatch: freeze
\* when not frozen yet, sign with the operator when it is the payer, count
\* the chunks and set the cursor to 0
ExecuteAllBegin(kind, client) ==
    /\ Callable
    /\ calls < MaxCalls
    /\ callKind' = kind
    /\ calls' = calls + 1
    /\ dispatched' = <<>>
    /\ frozenAtCall' = frozen
    /\ LET o == FreezeWhenNotFrozen(client)
       IN  /\ ApplyFreeze(o)
           /\ IF o.error # ""
              THEN /\ result' = Reject(o.error, <<>>)
                   /\ pc' = "done"
                   /\ UNCHANGED <<signedByOperator, callLocals>>
              ELSE /\ signedByOperator' =
                        (signedByOperator \/
                            (client.operatorAccountId # 0
                             /\ client.operatorAccountId = o.transactionId.accountId))
                   /\ transactionCount' = Len(o.transactions) \div o.nodeCount
                   /\ responses' = <<>>
                   /\ nextGroupIndex' = 0
                   /\ result' = NoResult
                   /\ pc' = "loop"
                   /\ UNCHANGED response
    /\ UNCHANGED <<chunkSize, fileId, contents, maxChunks, confirmed>>
    /\ UNCHANGED rcVars
    /\ UNCHANGED <<txVars, idVars>>

\* the transaction id executeAll installs for the group at the cursor
InstalledId(ids, index) ==
    IF index + 1 <= Len(ids) THEN ids[index + 1] ELSE NullId

\* Transaction.execute of the base class: one request of the current group is
\* sent to one of the nodes; what is sent is recorded without the node
SuperExecute(index, node) ==
    LET request == transactions[index * nodeCount + node]
    IN  [transactionId |-> request.transactionId, data |-> request.data]

\* loop test true: install the group's transaction id and dispatch the group
Dispatch(node) ==
    /\ pc = "loop"
    /\ nextGroupIndex < transactionCount
    /\ transactionId' = InstalledId(transactionIds, nextGroupIndex)
    /\ dispatched' = Append(dispatched,
            [group |-> nextGroupIndex,
             request |-> SuperExecute(nextGroupIndex, node),
             installed |-> transactionId',
             status |-> "sent"])
    /\ pc' = "precheck"
    /\ UNCHANGED <<chunkSize, fileId, frozenAtCall, contents, maxChunks, frozen,
                   transactionIds, transactions, nodeCount, startIndex,
                   signedByOperator, callKind, callLocals, result, confirmed,
                   calls>>
    /\ UNCHANGED rcVars
    /\ UNCHANGED <<txVars, idVars>>

\* the log of the call with the fate of its last request noted
SetStatus(log, status) == [log EXCEPT ![Len(log)].status = status]

\* the dispatch resolves: the node's precheck accepted the request or not
Precheck(accepted) ==
    /\ pc = "precheck"
    /\ IF accepted
       THEN /\ response' = [transactionId |-> transactionId]
            /\ dispatched' = SetStatus(dispatched, "accepted")
            /\ pc' = "receipt"
            /\ UNCHANGED result
       ELSE /\ result' = Reject("PrecheckRejected", responses)
            /\ dispatched' = SetStatus(dispatched, "rejected")
            /\ pc' = "done"
            /\ UNCHANGED response
    /\ UNCHANGED <<chunkSize, fileId, frozenAtCall, contents, maxChunks,
                   frozenFields, signedByOperator, callKind, transactionCount,
                   responses, nextGroupIndex, confirmed, calls>>
    /\ UNCHANGED rcVars
    /\ UNCHANGED <<txVars, idVars>>

ReceiptFailureSkipped(success) ==
    /\ pc = "receipt"
    /\ confirmed' = IF success THEN confirmed \cup {response.transactionId}
                    ELSE confirmed
    /\ dispatched' = SetStatus(dispatched, IF success THEN "confirmed" ELSE "failed")
    /\ responses' = Append(responses, response)
    /\ nextGroupIndex' = nextGroupIndex + 1
    /\ pc' = "loop"
    /\ UNCHANGED <<chunkSize, fileId, frozenAtCall, contents, maxChunks,
                   frozenFields, signedByOperator, callKind, transactionCount,
                   response, result, calls>>
    /\ UNCHANGED rcVars
    /\ UNCHANGED <<txVars, idVars>>

\* response.getReceipt(client) resolves with a successful receipt or throws
Receipt(success) ==
    /\ pc = "receipt"
    /\ IF success
       THEN /\ confirmed' = confirmed \cup {response.transactionId}
            /\ dispatched' = SetStatus(dispatched, "confirmed")
            /\ responses' = Append(responses, response)
            /\ nextGroupIndex' = nextGroupIndex + 1
            /\ pc' = "loop"
            /\ UNCHANGED result
       ELSE /\ result' = Reject("ReceiptFailed", responses)
            /\ dispatched' = SetStatus(dispatched, "failed")
            /\ pc' = "done"
            /\ UNCHANGED <<confirmed, responses, nextGroupIndex>>
    /\ UNCHANGED <<chunkSize, fileId, frozenAtCall, contents, maxChunks,
                   frozenFields, signedByOperator, callKind, transactionCount,
                   response, calls>>
    /\ UNCHANGED rcVars
    /\ UNCHANGED <<txVars, idVars>>

ExecuteValueWholeList(kind, list) == list

\* what execute hands on of the list executeAll resolved with
ExecuteValue(kind, list) == IF kind = "execute" THEN <<list[1]>> ELSE list

\* loop test false: executeAll returns responses; execute returns its entry 0
Return ==
    /\ pc = "loop"
    /\ nextGroupIndex >= transactionCount
    /\ result' = Resolve(ExecuteValue(callKind, responses))
    /\ pc' = "done"
    /\ UNCHANGED <<chunkSize, fileId, frozenAtCall, contents, maxChunks,
                   frozenFields, signedByOperator, callKind, callLocals, network>>
    /\ UNCHANGED rcVars
    /\ UNCHANGED <<txVars, idVars>>

----------------------------------------------------------------------------
\* Transaction (src/src/Transaction.ts): getReceipt and _waitForReceipt

\* Bounds of the receipt model
MaxPending == 3
MaxRemainingSec == 4
MaxLateSec == 1
RandomDen == 4

receiptInitialDelayMs == 1000
receiptRetryDelayMs == 500

\* "set timeout at max valid duration": validStartMs + 120000
MaxValidDurationMs == 120000

\* ResponseCodeEnum of the generated protobuf code: the codes the model uses
ResponseCodeEnum ==
    [OK |-> 0, INVALID_SIGNATURE |-> 7, RECEIPT_NOT_FOUND |-> 18,
     UNKNOWN |-> 21, SUCCESS |-> 22]

PendingCodes == {ResponseCodeEnum.UNKNOWN, ResponseCodeEnum.OK}

FailureCodes == {ResponseCodeEnum.INVALID_SIGNATURE, ResponseCodeEnum.RECEIPT_NOT_FOUND}

\* the final answer of a receipt source that makes _getReceipt reject (the
\* query itself fails) instead of resolving with a receipt
QueryRejected == -1

\* a receipt source that stays pending for ever
Forever == -1

\* a receipt source answers `pending` polls with a pending status and every
\* later poll with `final`
Sources ==
    [pending : (0..MaxPending) \cup {Forever},
     final : {ResponseCodeEnum.SUCCESS, QueryRejected} \cup FailureCodes]

\* how long one poll may be in flight, in ms
PollLatencies == {500, 1500}

\* timestampToMs(timestamp)
TimestampToMs(ts) == ts.seconds * 1000 + ts.nanos \div 1000000

ValidUntilOwnWindow(start, durationSeconds) ==
    TimestampToMs(start) + durationSeconds * 1000

\* validUntilMs = validStartMs + 120000
ValidUntil(start, durationSeconds) == TimestampToMs(start) + MaxValidDurationMs

IsPendingUnknownOnly(status) == status = ResponseCodeEnum.UNKNOWN

\* [ ResponseCodeEnum.UNKNOWN, ResponseCodeEnum.OK ].includes(receipt.getStatus())
IsPending(status) == status \in PendingCodes

Pow2(n) == 2 ^ n

BackoffNoOffset(n, r) == (receiptRetryDelayMs * r * Pow2(n)) \div RandomDen

\* Math.floor(receiptRetryDelayMs * Math.random() * (2 ** attempt - 1)), with
\* Math.random() = r / RandomDen
Backoff(n, r) == (receiptRetryDelayMs * r * (Pow2(n) - 1)) \div RandomDen

TimedOutIgnoringDelay(nowMs, delayMs, untilMs) == nowMs > untilMs

\* Date.now() + delay > validUntilMs
TimedOut(nowMs, delayMs, untilMs) == nowMs + delayMs > untilMs

\* getResponseCodeName(code)
GetResponseCodeName(code) ==
    IF \E name \in DOMAIN ResponseCodeEnum : ResponseCodeEnum[name] = code
    THEN CHOOSE name \in DOMAIN ResponseCodeEnum : ResponseCodeEnum[name] = code
    ELSE "UNKNOWN"

NoOutcome == [kind |-> "none", code |-> 0, codeName |-> ""]

\* return receipt
ReceiptOutcome(status) == [kind |-> "receipt", code |-> status, codeName |-> ""]

HederaErrorCodeLost(code) ==
    [kind |-> "HederaError", code |-> ResponseCodeEnum.OK, codeName |-> "OK"]

\* throw new HederaError(receipt.getStatus())
HederaError(code) ==
    [kind |-> "HederaError", code |-> code, codeName |-> GetResponseCodeName(code)]

\* throw new Error(`timed out waiting for consensus on transaction ID: ...`)
TimeoutError == [kind |-> "timeout", code |-> 0, codeName |-> ""]

\* the rejection of _getReceipt passing through _waitForReceipt
QueryError == [kind |-> "rejected", code |-> 0, codeName |-> ""]

\* the answer of the receipt source to its poll number n (1-based)
SourceAnswers(n) ==
    IF source.pending = Forever \/ n <= source.pending
    THEN PendingCodes
    ELSE {source.final}

\* a Transaction whose getReceipt has not been called
NewTransaction ==
    /\ rpc = "idle"
    /\ validUntilMs = 0
    /\ attempt = 0
    /\ delay = 0
    /\ random = 0
    /\ polls = 0
    /\ lastStatus = ResponseCodeEnum.UNKNOWN
    /\ lastLatency = 0
    /\ outcome = NoOutcome
    /\ callTime = now

GetReceiptStoringDeadline ==
    /\ rpc = "idle"
    /\ validUntilMs' = ValidUntil(txnValidStart, validDurationSeconds)
    /\ validDurationSeconds' = MaxValidDurationMs \div 1000
    /\ callTime' = now
    /\ rpc' = "initialDelay"
    /\ UNCHANGED <<txnValidStart, source, now, attempt, delay,
                   random, polls, lastStatus, lastLatency, outcome>>
    /\ UNCHANGED faVars
    /\ UNCHANGED <<txVars, idVars>>

\* getReceipt(client), up to the first await: the deadline is computed and
\* the initial delay begins
GetReceipt ==
    /\ rpc = "idle"
    /\ validUntilMs' = ValidUntil(txnValidStart, validDurationSeconds)
    /\ callTime' = now
    /\ rpc' = "initialDelay"
    /\ UNCHANGED <<txnValidStart, validDurationSeconds, source, now, attempt, delay,
                   random, polls, lastStatus, lastLatency, outcome>>
    /\ UNCHANGED faVars
    /\ UNCHANGED <<txVars, idVars>>

\* setTimeoutAwaitable(receiptInitialDelayMs) resolves: the loop starts with
\* attempt 0 and issues the first poll
InitialDelayElapsed ==
    /\ rpc = "initialDelay"
    /\ now' = now + receiptInitialDelayMs
    /\ attempt' = 0
    /\ polls' = polls + 1
    /\ rpc' = "polling"
    /\ UNCHANGED <<txnValidStart, validDurationSeconds, source, callTime,
                   validUntilMs, delay, random, lastStatus, lastLatency, outcome>>
    /\ UNCHANGED faVars
    /\ UNCHANGED <<txVars, idVars>>

\* _getReceipt resolves with a receipt of the given status after `latency`
\* ms, and the status is classified; r is the Math.random() drawn when the
\* status is pending
PollReturns(latency, status, r) ==
    /\ rpc = "polling"
    /\ status # QueryRejected
    /\ now' = now + latency
    /\ lastLatency' = latency
    /\ lastStatus' = status
    /\ IF IsPending(status)
       THEN /\ random' = r
            /\ delay' = Backoff(attempt, r)
            /\ IF TimedOut(now', delay', validUntilMs)
               THEN /\ outcome' = TimeoutError
                    /\ rpc' = "done"
               ELSE /\ outcome' = outcome
                    /\ rpc' = "sleeping"
       ELSE /\ r = 0
            /\ UNCHANGED <<random, delay>>
            /\ rpc' = "done"
            /\ outcome' = IF status # ResponseCodeEnum.SUCCESS
                          THEN HederaError(status)
                          ELSE ReceiptOutcome(status)
    /\ UNCHANGED <<txnValidStart, validDurationSeconds, source, callTime,
                   validUntilMs, attempt, polls>>
    /\ UNCHANGED faVars
    /\ UNCHANGED <<txVars, idVars>>

\* _getReceipt rejects after `latency` ms: the error leaves _waitForReceipt
PollRejects(latency) ==
    /\ rpc = "polling"
    /\ QueryRejected \in SourceAnswers(polls)
    /\ now' = now + latency
    /\ lastLatency' = latency
    /\ outcome' = QueryError
    /\ rpc' = "done"
    /\ UNCHANGED <<txnValidStart, validDurationSeconds, source, callTime,
                   validUntilMs, attempt, delay, random, polls, lastStatus>>
    /\ UNCHANGED faVars
    /\ UNCHANGED <<txVars, idVars>>

\* setTimeoutAwaitable(delay) resolves: attempt += 1 and the next poll is issued
SleepElapsed ==
    /\ rpc = "sleeping"
    /\ now' = now + delay
    /\ attempt' = attempt + 1
    /\ polls' = polls + 1
    /\ rpc' = "polling"
    /\ UNCHANGED <<txnValidStart, validDurationSeconds, source, callTime,
                   validUntilMs, delay, random, lastStatus, lastLatency, outcome>>
    /\ UNCHANGED faVars
    /\ UNCHANGED <<txVars, idVars>>

\* the transactions whose receipt is asked for, the receipt sources and the
\* times of the call: from MaxRemainingSec seconds before the deadline the
\* code computes to MaxLateSec seconds after it
ReceiptInputs ==
    /\ txnValidStart \in {[seconds |-> 100, nanos |-> 0],
                          [seconds |-> 100, nanos |-> 250000000]}
    /\ validDurationSeconds \in {30, 120}
    /\ source \in Sources
    /\ \E offset \in (0 - MaxRemainingSec)..MaxLateSec :
          now = TimestampToMs(txnValidStart) + MaxValidDurationMs + offset * 1000
    /\ NewTransaction

\* the receipt part while the FileAppendTransaction part runs
ReceiptUnused ==
    /\ txnValidStart = [seconds |-> 100, nanos |-> 0]
    /\ validDurationSeconds = 120
    /\ source = [pending |-> 0, final |-> ResponseCodeEnum.SUCCESS]
    /\ now = 0
    /\ NewTransaction

\* the FileAppendTransaction part while the receipt part runs
FileAppendUnused ==
    /\ NewFileAppendTransaction
    /\ chunkSize = 1

----------------------------------------------------------------------------
\* errors.ts: isPrecheckCodeOk and throwIfExceptional

\* the greatest response code the checks are called with; the least is -1
MaxCode == 60

Codes == (0 - 1)..MaxCode

IsPrecheckCodeOkUnknownAlways(code, unknownOk) ==
    code \in {ResponseCodeEnum.SUCCESS, ResponseCodeEnum.OK, ResponseCodeEnum.UNKNOWN}

\* isPrecheckCodeOk(code, unknownOk = false)
IsPrecheckCodeOk(code, unknownOk) ==
    IF code \in {ResponseCodeEnum.SUCCESS, ResponseCodeEnum.OK} THEN TRUE
    ELSE IF code = ResponseCodeEnum.UNKNOWN THEN unknownOk
    ELSE FALSE

\* throwIfExceptional(code, unknownOk = false): what it throws, NoOutcome
\* when it returns
ThrowIfExceptional(code, unknownOk) ==
    IF ~IsPrecheckCodeOk(code, unknownOk) THEN HederaError(code) ELSE NoOutcome

NoCheck == [called |-> FALSE, code |-> 0, unknownOk |-> FALSE, thrown |-> NoOutcome]

----------------------------------------------------------------------------
\* Transaction (src/src/Transaction.ts): fromBytes, toBytes, sign, signWith
\* and execute

\* Bounds of the Transaction model
MaxSigns == 2
MaxExecutes == 2

NullAccountId == [shard |-> 0, realm |-> 0, num |-> 0]

\* the node and the payer of the transactions built
NodeId == [shard |-> 0, realm |-> 0, num |-> 3]
PayerId == [shard |-> 0, realm |-> 0, num |-> 2]

\* the private keys in use; the public key of private key k
PrivateKeys == {1, 2}
PublicKeyOf(privateKey) == 100 + privateKey

\* TransactionBody.DataCase of the generated protobuf code: the field number
\* of the member of the data oneof that is set
DataCase ==
    [DATA_NOT_SET |-> 0, CONTRACTCALL |-> 7, CONTRACTCREATEINSTANCE |-> 8,
     CONTRACTUPDATEINSTANCE |-> 9, CRYPTOADDCLAIM |-> 10,
     CRYPTOCREATEACCOUNT |-> 11, CRYPTODELETE |-> 12, CRYPTODELETECLAIM |-> 13,
     CRYPTOTRANSFER |-> 14, CRYPTOUPDATEACCOUNT |-> 15, FILEAPPEND |-> 16,
     FILECREATE |-> 17, FILEDELETE |-> 18, FILEUPDATE |-> 19,
     SYSTEMDELETE |-> 20, SYSTEMUNDELETE |-> 21, CONTRACTDELETEINSTANCE |-> 22,
     FREEZE |-> 23, CONSENSUSCREATETOPIC |-> 24]

\* the switch of methodFromTxn: data case to unary method
MethodOfCase ==
    (DataCase.CONTRACTCALL :> "SmartContractService.contractCallMethod")
    @@ (DataCase.CONTRACTCREATEINSTANCE :> "SmartContractService.createContract")
    @@ (DataCase.CONTRACTUPDATEINSTANCE :> "SmartContractService.updateContract")
    @@ (DataCase.CONTRACTDELETEINSTANCE :> "SmartContractService.deleteContract")
    @@ (DataCase.CRYPTOADDCLAIM :> "CryptoService.addClaim")
    @@ (DataCase.CRYPTOCREATEACCOUNT :> "CryptoService.createAccount")
    @@ (DataCase.CRYPTODELETE :> "CryptoService.cryptoDelete")
    @@ (DataCase.CRYPTODELETECLAIM :> "CryptoService.deleteClaim")
    @@ (DataCase.CRYPTOTRANSFER :> "CryptoService.cryptoTransfer")
    @@ (DataCase.CRYPTOUPDATEACCOUNT :> "CryptoService.updateAccount")
    @@ (DataCase.FILEAPPEND :> "FileService.appendContent")
    @@ (DataCase.FILECREATE :> "FileService.createFile")
    @@ (DataCase.FILEDELETE :> "FileService.deleteFile")
    @@ (DataCase.FILEUPDATE :> "FileService.updateFile")
    @@ (DataCase.SYSTEMDELETE :> "SmartContractService.systemDelete")
    @@ (DataCase.SYSTEMUNDELETE :> "SmartContractService.systemUndelete")
    @@ (DataCase.FREEZE :> "FreezeService.freeze")

MethodFromTxnDefaulting(body) ==
    IF body.dataCase \in DOMAIN MethodOfCase
    THEN [error |-> "", method |-> MethodOfCase[body.dataCase]]
    ELSE [error |-> "", method |-> "CryptoService.cryptoTransfer"]

\* methodFromTxn(inner): the method, or the error it throws
MethodFromTxn(body) ==
    IF body.dataCase \in DOMAIN MethodOfCase
    THEN [error |-> "", method |-> MethodOfCase[body.dataCase]]
    ELSE IF body.dataCase = DataCase.DATA_NOT_SET
    THEN [error |-> "transaction body missing", method |-> ""]
    ELSE [error |-> "unsupported body case", method |-> ""]

\* a TransactionBody with every field the SDK reads set
Body(node, payer, validStart, duration, case) ==
    [hasTransactionID |-> TRUE,
     transactionID |-> [accountID |-> payer, transactionValidStart |-> validStart],
     hasNodeAccountID |-> TRUE,
     nodeAccountID |-> node,
     hasTransactionValidDuration |-> TRUE,
     transactionValidDuration |-> duration,
     dataCase |-> case]

\* TransactionBody.serializeBinary: one entry per field that is set, the
\* field number first (transactionID 1, nodeAccountID 2,
\* transactionValidDuration 4, the data oneof 7..)
EncodeBody(body) ==
    (IF body.hasTransactionID
     THEN << <<1, body.transactionID.accountID.shard,
               body.transactionID.accountID.realm,
               body.transactionID.accountID.num,
               body.transactionID.transactionValidStart.seconds,
               body.transactionID.transactionValidStart.nanos>> >>
     ELSE <<>>)
    \o (IF body.hasNodeAccountID
        THEN << <<2, body.nodeAccountID.shard, body.nodeAccountID.realm,
                  body.nodeAccountID.num>> >>
        ELSE <<>>)
    \o (IF body.hasTransactionValidDuration
        THEN << <<4, body.transactionValidDuration>> >>
        ELSE <<>>)
    \o (IF body.dataCase # DataCase.DATA_NOT_SET
        THEN << <<body.dataCase, 0>> >>
        ELSE <<>>)

HasField(bytes, number) == \E i \in 1..Len(bytes) : bytes[i][1] = number

Field(bytes, number) == bytes[CHOOSE i \in 1..Len(bytes) : bytes[i][1] = number]

\* TransactionBody.deserializeBinary
DecodeBody(bytes) ==
    LET id == Field(bytes, 1)
        node == Field(bytes, 2)
        data == {i \in 1..Len(bytes) : bytes[i][1] >= 7}
    IN  [hasTransactionID |-> HasField(bytes, 1),
         transactionID |->
            IF HasField(bytes, 1)
            THEN [accountID |-> [shard |-> id[2], realm |-> id[3], num |-> id[4]],
                  transactionValidStart |-> [seconds |-> id[5], nanos |-> id[6]]]
            ELSE [accountID |-> NullAccountId,
                  transactionValidStart |-> [seconds |-> 0, nanos |-> 0]],
         hasNodeAccountID |-> HasField(bytes, 2),
         nodeAccountID |->
            IF HasField(bytes, 2)
            THEN [shard |-> node[2], realm |-> node[3], num |-> node[4]]
            ELSE NullAccountId,
         hasTransactionValidDuration |-> HasField(bytes, 4),
         transactionValidDuration |->
            IF HasField(bytes, 4) THEN Field(bytes, 4)[2] ELSE 0,
         dataCase |->
            IF data = {} THEN DataCase.DATA_NOT_SET
            ELSE bytes[CHOOSE i \in data : \A j \in data : j <= i][1]]

\* this._inner.getSigmap() of a Transaction_ that has none
NoSigMap == [isNull |-> TRUE, sigpair |-> <<>>]

\* Transaction_.serializeBinary: sigMap is field 3, bodyBytes field 4; a
\* field that is not set, and empty bytes, are left out
SerializeBinary(in) ==
    (IF ~in.sigmap.isNull
     THEN << <<3, [i \in 1..Len(in.sigmap.sigpair) |->
                    <<in.sigmap.sigpair[i].pubKeyPrefix,
                      in.sigmap.sigpair[i].ed25519>>]>> >>
     ELSE <<>>)
    \o (IF in.bodybytes # <<>> THEN << <<4, in.bodybytes>> >> ELSE <<>>)

\* Transaction_.deserializeBinary
DeserializeBinary(bytes) ==
    [bodybytes |-> IF HasField(bytes, 4) THEN Field(bytes, 4)[2] ELSE <<>>,
     sigmap |->
        IF HasField(bytes, 3)
        THEN [isNull |-> FALSE,
              sigpair |-> [i \in 1..Len(Field(bytes, 3)[2]) |->
                              [pubKeyPrefix |-> Field(bytes, 3)[2][i][1],
                               ed25519 |-> Field(bytes, 3)[2][i][2]]]]
        ELSE NoSigMap]

\* what fromBytes delivers when it throws
TransactionError(err) ==
    [kind |-> "error", error |-> err, node |-> NullAccountId,
     inner |-> [bodybytes |-> <<>>, sigmap |-> NoSigMap],
     txnId |-> [accountID |-> NullAccountId,
                transactionValidStart |-> [seconds |-> 0, nanos |-> 0]],
     validDurationSeconds |-> 0, method |-> ""]

\* new Transaction(node, inner, body, method)
NewTransactionOf(node, in, body, m) ==
    IF ~body.hasTransactionID \/ ~body.hasTransactionValidDuration
    THEN TransactionError("orThrow")
    ELSE [kind |-> "tx", error |-> "", node |-> node, inner |-> in,
          txnId |-> body.transactionID,
          validDurationSeconds |-> body.transactionValidDuration,
          method |-> m]

FromBytesPayerAsNode(bytes) ==
    LET in == DeserializeBinary(bytes)
        body == DecodeBody(in.bodybytes)
        m == MethodFromTxn(body)
    IN  IF ~body.hasNodeAccountID
        THEN TransactionError("transaction missing node account ID")
        ELSE IF m.error # "" THEN TransactionError(m.error)
        ELSE NewTransactionOf(body.transactionID.accountID, in, body, m.method)

\* Transaction.fromBytes(bytes)
FromBytes(bytes) ==
    LET in == DeserializeBinary(bytes)
        body == DecodeBody(in.bodybytes)
        m == MethodFromTxn(body)
    IN  IF ~body.hasNodeAccountID
        THEN TransactionError("transaction missing node account ID")
        ELSE IF m.error # "" THEN TransactionError(m.error)
        ELSE NewTransactionOf(body.nodeAccountID, in, body, m.method)

\* toBytes()
ToBytes == SerializeBinary(inner)

\* the id getter: TransactionId.fromProto(this._txnId)
TxnId == [accountID |-> txnAccountId, transactionValidStart |-> txnValidStart]

\* TransactionBuilder.build(): the Transaction made of a body, its encoding
\* and the method of its data case
TransactionBuilt(body) ==
    LET t == NewTransactionOf(body.nodeAccountID,
                              [bodybytes |-> EncodeBody(body), sigmap |-> NoSigMap],
                              body, MethodFromTxn(body).method)
    IN  /\ txnNode = t.node
        /\ inner = t.inner
        /\ txnAccountId = t.txnId.accountID
        /\ txnValidStart = t.txnId.transactionValidStart
        /\ validDurationSeconds = t.validDurationSeconds
        /\ method = t.method

NoDecoded == [TransactionError("") EXCEPT !.kind = "none"] @@ [own |-> FALSE]

\* a Transaction no method of which has been called
TransactionIdle ==
    /\ signs = 0
    /\ pendingSigns = <<>>
    /\ overtaken = FALSE
    /\ epc = "idle"
    /\ executes = 0
    /\ networkCalls = <<>>
    /\ executed = NoOutcome
    /\ decoded = NoDecoded
    /\ checked = NoCheck

\* a sum over the message, standing for the digest that is signed
RECURSIVE Digest(_)
Digest(message) ==
    IF message = <<>> THEN 0
    ELSE (Digest(Tail(message)) + Len(Head(message)) + Head(message)[1]
          + Head(message)[2]) % 100

\* privateKey.sign(message), and what a signer holding the key returns
Ed25519Sign(privateKey, message) == privateKey * 1000 + Digest(message)

AddSignatureUnlessPresent(in, signature, publicKey) ==
    IF \E i \in 1..Len(in.sigmap.sigpair) :
            in.sigmap.sigpair[i].pubKeyPrefix = publicKey
    THEN in
    ELSE [in EXCEPT !.sigmap =
            [isNull |-> FALSE,
             sigpair |-> Append(in.sigmap.sigpair,
                                [pubKeyPrefix |-> publicKey, ed25519 |-> signature])]]

\* _addSignature({ signature, publicKey }): the inner message after it
AddSignature(in, signature, publicKey) ==
    [in EXCEPT !.sigmap =
        [isNull |-> FALSE,
         sigpair |-> Append(in.sigmap.sigpair,
                            [pubKeyPrefix |-> publicKey, ed25519 |-> signature])]]

txnFields == <<txnNode, txnAccountId, method>>
signUnchanged == <<epc, executes, networkCalls, executed, decoded, checked>>

\* sign(privateKey)
Sign(privateKey) ==
    /\ signs < MaxSigns
    /\ signs' = signs + 1
    /\ inner' = AddSignature(inner, Ed25519Sign(privateKey, inner.bodybytes),
                             PublicKeyOf(privateKey))
    /\ UNCHANGED <<txnFields, pendingSigns, overtaken, signUnchanged>>
    /\ UNCHANGED <<faVars, rcVars, idVars>>

\* signWith(publicKey, signer), up to its await: the signer is called with
\* the body bytes; the signature of a synchronous signer is added at once
SignWith(privateKey, async) ==
    /\ signs < MaxSigns
    /\ signs' = signs + 1
    /\ LET signResult == Ed25519Sign(privateKey, inner.bodybytes)
       IN  IF async
           THEN /\ pendingSigns' =
                      Append(pendingSigns,
                             [signature |-> signResult,
                              publicKey |-> PublicKeyOf(privateKey)])
                /\ inner' = inner
           ELSE /\ inner' = AddSignature(inner, signResult, PublicKeyOf(privateKey))
                /\ pendingSigns' = pendingSigns
    /\ UNCHANGED <<txnFields, overtaken, signUnchanged>>
    /\ UNCHANGED <<faVars, rcVars, idVars>>

\* the sequence without its entry i
Remove(seq, i) == SubSeq(seq, 1, i - 1) \o SubSeq(seq, i + 1, Len(seq))

SignerResolvesOverwriting(i) ==
    /\ i \in 1..Len(pendingSigns)
    /\ inner' = AddSignature([inner EXCEPT !.sigmap = NoSigMap],
                             pendingSigns[i].signature, pendingSigns[i].publicKey)
    /\ pendingSigns' = Remove(pendingSigns, i)
    /\ overtaken' = (overtaken \/ i > 1)
    /\ UNCHANGED <<txnFields, signs, signUnchanged>>
    /\ UNCHANGED <<faVars, rcVars, idVars>>

\* the promise of the signer of the pending signWith call i resolves: the
\* call goes on to _addSignature
SignerResolves(i) ==
    /\ i \in 1..Len(pendingSigns)
    /\ inner' = AddSignature(inner, pendingSigns[i].signature,
                             pendingSigns[i].publicKey)
    /\ pendingSigns' = Remove(pendingSigns, i)
    /\ overtaken' = (overtaken \/ i > 1)
    /\ UNCHANGED <<txnFields, signs, signUnchanged>>
    /\ UNCHANGED <<faVars, rcVars, idVars>>

\* the promise of the signer of the pending signWith call i rejects: the
\* call rejects before _addSignature
SignerRejects(i) ==
    /\ i \in 1..Len(pendingSigns)
    /\ pendingSigns' = Remove(pendingSigns, i)
    /\ UNCHANGED <<txnFields, inner, signs, overtaken, signUnchanged>>
    /\ UNCHANGED <<faVars, rcVars, idVars>>

\* the precheck codes a node answers with
PrecheckCodes ==
    {ResponseCodeEnum.OK, ResponseCodeEnum.INVALID_SIGNATURE, ResponseCodeEnum.UNKNOWN}

\* what execute delivers: this.id, or the error of the unary call
ExecutedId == [kind |-> "transactionId", code |-> 0, codeName |-> ""]
CallError == [kind |-> "rejected", code |-> 0, codeName |-> ""]

\* client._getNode(this._node): the node the call goes to
GetNode(id) == id

\* util.handlePrecheck(response): what it throws, NoOutcome when it returns
HandlePrecheck(code) == ThrowIfExceptional(code, FALSE)

execUnchanged == <<inner, signs, pendingSigns, overtaken, decoded, checked>>

\* execute(client), up to its await: one unary call to the node
Execute ==
    /\ epc \in {"idle", "done"}
    /\ executes < MaxExecutes
    /\ executes' = executes + 1
    /\ networkCalls' = Append(networkCalls,
                              [node |-> GetNode(txnNode), method |-> method])
    /\ executed' = NoOutcome
    /\ epc' = "calling"
    /\ UNCHANGED <<txnFields, execUnchanged>>
    /\ UNCHANGED <<faVars, rcVars, idVars>>

ExecuteRespondsRetrying(code) ==
    /\ epc = "calling"
    /\ IF HandlePrecheck(code) = NoOutcome
       THEN /\ executed' = ExecutedId
            /\ epc' = "done"
            /\ UNCHANGED networkCalls
       ELSE /\ networkCalls' = Append(networkCalls,
                                      [node |-> GetNode(txnNode), method |-> method])
            /\ UNCHANGED <<executed, epc>>
    /\ UNCHANGED <<txnFields, execUnchanged, executes>>
    /\ UNCHANGED <<faVars, rcVars, idVars>>

\* the unary call resolves with a response carrying the precheck code:
\* handlePrecheck throws or execute returns this.id
ExecuteResponds(code) ==
    /\ epc = "calling"
    /\ executed' = IF HandlePrecheck(code) = NoOutcome THEN ExecutedId
                   ELSE HandlePrecheck(code)
    /\ epc' = "done"
    /\ UNCHANGED <<txnFields, execUnchanged, executes, networkCalls>>
    /\ UNCHANGED <<faVars, rcVars, idVars>>

\* the unary call rejects: its error leaves execute
ExecuteCallFails ==
    /\ epc = "calling"
    /\ executed' = CallError
    /\ epc' = "done"
    /\ UNCHANGED <<txnFields, execUnchanged, executes, networkCalls>>
    /\ UNCHANGED <<faVars, rcVars, idVars>>

\* byte strings that are not made by toBytes of the transaction at hand:
\* a body without a node, one without data, one of a data case the switch
\* of methodFromTxn does not list
ForeignBytes ==
    {SerializeBinary([bodybytes |-> EncodeBody(b), sigmap |-> NoSigMap]) :
        b \in {[Body(NodeId, PayerId, [seconds |-> 50, nanos |-> 0], 60,
                     DataCase.FILECREATE) EXCEPT !.hasNodeAccountID = FALSE],
               Body(NodeId, PayerId, [seconds |-> 50, nanos |-> 0], 60,
                    DataCase.DATA_NOT_SET),
               Body(NodeId, PayerId, [seconds |-> 50, nanos |-> 0], 60,
                    DataCase.CONSENSUSCREATETOPIC)}}

\* Transaction.fromBytes(bytes), with the bytes of toBytes() when own
FromBytesCall(own, bytes) ==
    /\ own => bytes = ToBytes
    /\ decoded' = FromBytes(bytes) @@ [own |-> own]
    /\ UNCHANGED <<txnFields, inner, signs, pendingSigns, overtaken, epc, executes,
                   networkCalls, executed, checked>>
    /\ UNCHANGED <<faVars, rcVars, idVars>>

\* throwIfExceptional(code, unknownOk) is called
ThrowIfExceptionalCall(code, unknownOk) ==
    /\ checked' = [called |-> TRUE, code |-> code, unknownOk |-> unknownOk,
                   thrown |-> ThrowIfExceptional(code, unknownOk)]
    /\ UNCHANGED <<txnFields, inner, signs, pendingSigns, overtaken, epc, executes,
                   networkCalls, executed, decoded>>
    /\ UNCHANGED <<faVars, rcVars, idVars>>

\* the Transaction part while another part runs
TransactionUnused ==
    /\ TransactionBuilt(Body(NodeId, PayerId, txnValidStart, validDurationSeconds,
                             DataCase.CRYPTOTRANSFER))
    /\ TransactionIdle

\* the Transaction whose receipt SpecReceipt asks for: built, and signed once
TransactionSigned ==
    LET body == Body(NodeId, PayerId, txnValidStart, validDurationSeconds,
                     DataCase.CRYPTOTRANSFER)
        t == NewTransactionOf(body.nodeAccountID,
                              [bodybytes |-> EncodeBody(body), sigmap |-> NoSigMap],
                              body, MethodFromTxn(body).method)
        privateKey == CHOOSE k \in PrivateKeys : TRUE
    IN  /\ txnNode = t.node
        /\ inner = AddSignature(t.inner, Ed25519Sign(privateKey, t.inner.bodybytes),
                                PublicKeyOf(privateKey))
        /\ txnAccountId = t.txnId.accountID
        /\ method = t.method
        /\ signs = 1
        /\ pendingSigns = <<>>
        /\ overtaken = FALSE
        /\ epc = "idle"
        /\ executes = 0
        /\ networkCalls = <<>>
        /\ executed = NoOutcome
        /\ decoded = NoDecoded
        /\ checked = NoCheck

\* the receipt sources of SpecFailures and whether getReceipt is called late,
\* one second before the deadline: a source answering the first poll with
\* SUCCESS, one answering it with a failure, one pending once, and one
\* pending for ever that is asked late
TransactionSources ==
    {[source |-> [pending |-> 0, final |-> ResponseCodeEnum.SUCCESS], late |-> FALSE],
     [source |-> [pending |-> 0, final |-> ResponseCodeEnum.INVALID_SIGNATURE],
      late |-> FALSE],
     [source |-> [pending |-> 1, final |-> ResponseCodeEnum.SUCCESS], late |-> FALSE],
     [source |-> [pending |-> Forever, final |-> ResponseCodeEnum.SUCCESS],
      late |-> TRUE]}

\* the transactions SpecTx starts with, and a receipt source that answers
\* the first poll with SUCCESS
TransactionInputs ==
    /\ txnValidStart = [seconds |-> 100, nanos |-> 0]
    /\ validDurationSeconds \in {30, 120}
    /\ source = [pending |-> 0, final |-> ResponseCodeEnum.SUCCESS]
    /\ now = TimestampToMs(txnValidStart)
    /\ NewTransaction
    /\ \E case \in {DataCase.CRYPTOTRANSFER, DataCase.FILEAPPEND} :
          TransactionBuilt(Body(NodeId, PayerId, txnValidStart,
                                validDurationSeconds, case))
    /\ TransactionIdle

\* the transactions SpecFailures starts with, their receipt source and the
\* time of the first call
FailureInputs ==
    /\ txnValidStart = [seconds |-> 100, nanos |-> 0]
    /\ validDurationSeconds \in {30, 120}
    /\ \E s \in TransactionSources :
          /\ source = s.source
          /\ now = IF s.late
                   THEN TimestampToMs(txnValidStart) + MaxValidDurationMs
                            - receiptInitialDelayMs
                   ELSE TimestampToMs(txnValidStart)
    /\ NewTransaction
    /\ \E case \in {DataCase.CRYPTOTRANSFER, DataCase.FILEAPPEND} :
          TransactionBuilt(Body(NodeId, PayerId, txnValidStart,
                                validDurationSeconds, case))
    /\ TransactionIdle

----------------------------------------------------------------------------
\* AccountId: the constructor, toString and fromString

\* the characters of a decimal number
Digits == <<"0", "1", "2", "3", "4", "5", "6", "7", "8", "9">>

DigitChar(d) == Digits[d + 1]

IsDigit(c) == \E d \in 0..9 : Digits[d + 1] = c

DigitValue(c) == CHOOSE d \in 0..9 : Digits[d + 1] = c

\* String(n) of a non-negative integer: a sequence of characters
RECURSIVE NumberToString(_)
NumberToString(n) ==
    IF n < 10 THEN <<DigitChar(n)>>
    ELSE Append(NumberToString(n \div 10), DigitChar(n % 10))

\* the string is a non-empty run of digits
IsNumber(chars) == chars # <<>> /\ \A i \in 1..Len(chars) : IsDigit(chars[i])

\* Number(chars) of a run of digits
RECURSIVE ParseNumber(_)
ParseNumber(chars) ==
    IF chars = <<>> THEN 0
    ELSE ParseNumber(SubSeq(chars, 1, Len(chars) - 1)) * 10
            + DigitValue(chars[Len(chars)])

\* text.split(".")
RECURSIVE Split(_)
Split(chars) ==
    IF \A i \in 1..Len(chars) : chars[i] # "."
    THEN <<chars>>
    ELSE LET dot == CHOOSE i \in 1..Len(chars) :
                        /\ chars[i] = "."
                        /\ \A j \in 1..(i - 1) : chars[j] # "."
         IN  <<SubSeq(chars, 1, dot - 1)>> \o Split(SubSeq(chars, dot + 1, Len(chars)))

\* new AccountId(shard, realm, num)
NewAccountId(shard, realm, num) == [shard |-> shard, realm |-> realm, num |-> num]

\* new AccountId(num): shard and realm are 0
NewAccountIdOfNumber(num) == NewAccountId(0, 0, num)

\* toString(): "shard.realm.num"
AccountIdToString(id) ==
    NumberToString(id.shard) \o <<".">> \o NumberToString(id.realm) \o <<".">>
        \o NumberToString(id.num)

NoAccountId == [error |-> TRUE, id |-> NewAccountId(0, 0, 0)]

AccountIdFromStringRealmFirst(text) ==
    LET parts == Split(text)
    IN  IF \E i \in 1..Len(parts) : ~IsNumber(parts[i]) THEN NoAccountId
        ELSE IF Len(parts) = 1
        THEN [error |-> FALSE, id |-> NewAccountIdOfNumber(ParseNumber(parts[1]))]
        ELSE IF Len(parts) = 3
        THEN [error |-> FALSE,
              id |-> NewAccountId(ParseNumber(parts[2]), ParseNumber(parts[1]),
                                  ParseNumber(parts[3]))]
        ELSE NoAccountId

\* AccountId.fromString(text): a bare number is the num of shard 0 and
\* realm 0, three numbers are shard, realm and num, anything else throws
AccountIdFromString(text) ==
    LET parts == Split(text)
    IN  IF \E i \in 1..Len(parts) : ~IsNumber(parts[i]) THEN NoAccountId
        ELSE IF Len(parts) = 1
        THEN [error |-> FALSE, id |-> NewAccountIdOfNumber(ParseNumber(parts[1]))]
        ELSE IF Len(parts) = 3
        THEN [error |-> FALSE,
              id |-> NewAccountId(ParseNumber(parts[1]), ParseNumber(parts[2]),
                                  ParseNumber(parts[3]))]
        ELSE NoAccountId

\* the shard, realm and account numbers the ids are made of
EntityNumbers == {0, 5, 10, 50, 150, 520, 25050}

\* strings given to fromString that toString did not make: bare numbers,
\* a full id, and strings that are no id
GivenStrings ==
    {NumberToString(n) : n \in EntityNumbers}
        \cup {<<"1", "0", ".", "5", "0", ".", "2", "5", "0", "5", "0">>,
              <<"1", ".", "2">>, <<"1", ".", ".", "2">>, <<>>}

\* no AccountId made yet
EntityUnused ==
    entity = [op |-> "none", id |-> NewAccountId(0, 0, 0), arg |-> 0,
              text |-> <<>>, parsed |-> NoAccountId]

\* new AccountId(shard, realm, num)
NewAccountIdCall(shard, realm, num) ==
    /\ entity' = [op |-> "new", id |-> NewAccountId(shard, realm, num), arg |-> num,
                  text |-> <<>>, parsed |-> NoAccountId]
    /\ UNCHANGED <<faVars, rcVars, txVars>>

\* new AccountId(num)
NewAccountIdOfNumberCall(num) ==
    /\ entity' = [op |-> "newOfNumber", id |-> NewAccountIdOfNumber(num), arg |-> num,
                  text |-> <<>>, parsed |-> NoAccountId]
    /\ UNCHANGED <<faVars, rcVars, txVars>>

\* id.toString() of the AccountId at hand
ToStringCall ==
    /\ entity.op \in {"new", "newOfNumber"}
    /\ entity' = [entity EXCEPT !.op = "toString",
                                !.text = AccountIdToString(entity.id)]
    /\ UNCHANGED <<faVars, rcVars, txVars>>

\* AccountId.fromString(id.toString())
FromStringOfToString ==
    /\ entity.op = "toString"
    /\ entity' = [entity EXCEPT !.op = "roundTrip",
                                !.parsed = AccountIdFromString(entity.text)]
    /\ UNCHANGED <<faVars, rcVars, txVars>>

\* AccountId.fromString(text) of a given string
FromStringCall(text) ==
    /\ entity' = [op |-> "fromString", id |-> NewAccountId(0, 0, 0), arg |-> 0,
                  text |-> text, parsed |-> AccountIdFromString(text)]
    /\ UNCHANGED <<faVars, rcVars, txVars>>

----------------------------------------------------------------------------
\* Specifications

Init == NewFileAppendTransaction /\ ReceiptUnused /\ TransactionUnused /\ EntityUnused

Next ==
    \/ \E f \in FileIds : SetFileId(f)
    \/ \E n \in 0..MaxLen : SetContents(n)
    \/ \E m \in 0..MaxChunksArg : SetMaxChunks(m)
    \/ \E client \in Clients : FreezeWith(client)
    \/ \E kind \in {"execute", "executeAll"}, client \in Clients :
            ExecuteAllBegin(kind, client)
    \/ \E node \in 1..nodeCount : Dispatch(node)
    \/ \E accepted \in BOOLEAN : Precheck(accepted)
    \/ \E success \in BOOLEAN : Receipt(success)
    \/ Return

Spec == Init /\ [][Next]_vars

NextReceipt ==
    \/ GetReceipt
    \/ InitialDelayElapsed
    \/ \E latency \in PollLatencies, status \in SourceAnswers(polls),
          r \in 0..(RandomDen - 1) : PollReturns(latency, status, r)
    \/ \E latency \in PollLatencies : PollRejects(latency)
    \/ SleepElapsed

InitReceipt == ReceiptInputs /\ FileAppendUnused /\ TransactionSigned /\ EntityUnused

SpecReceipt == InitReceipt /\ [][NextReceipt]_vars

\* every timer fires and every poll is answered
SpecReceiptFair == SpecReceipt /\ WF_vars(NextReceipt)

NextTx ==
    \/ \E privateKey \in PrivateKeys : Sign(privateKey)
    \/ \E privateKey \in PrivateKeys, async \in BOOLEAN : SignWith(privateKey, async)
    \/ \E i \in 1..Len(pendingSigns) : SignerResolves(i)
    \/ \E i \in 1..Len(pendingSigns) : SignerRejects(i)
    \/ Execute
    \/ \E code \in PrecheckCodes : ExecuteResponds(code)
    \/ ExecuteCallFails
    \/ \E bytes \in {ToBytes} : FromBytesCall(TRUE, bytes)
    \/ \E bytes \in ForeignBytes : FromBytesCall(FALSE, bytes)
    \/ GetReceipt
    \/ InitialDelayElapsed
    \/ \E latency \in PollLatencies, status \in SourceAnswers(polls) :
            PollReturns(latency, status, 0)

InitTx == TransactionInputs /\ FileAppendUnused /\ EntityUnused

SpecTx == InitTx /\ [][NextTx]_vars

\* execute and getReceipt of one Transaction, without signing
NextFailures ==
    \/ Execute
    \/ \E code \in PrecheckCodes : ExecuteResponds(code)
    \/ ExecuteCallFails
    \/ GetReceipt
    \/ InitialDelayElapsed
    \/ \E latency \in PollLatencies, status \in SourceAnswers(polls) :
            PollReturns(latency, status, 0)
    \/ SleepElapsed

InitFailures == FailureInputs /\ FileAppendUnused /\ EntityUnused

SpecFailures == InitFailures /\ [][NextFailures]_vars

NextErrors ==
    \E code \in Codes, unknownOk \in BOOLEAN : ThrowIfExceptionalCall(code, unknownOk)

InitErrors == FileAppendUnused /\ ReceiptUnused /\ TransactionUnused /\ EntityUnused

SpecErrors == InitErrors /\ [][NextErrors]_vars

NextEntity ==
    \/ \E shard \in EntityNumbers, realm \in EntityNumbers, num \in EntityNumbers :
            NewAccountIdCall(shard, realm, num)
    \/ \E num \in EntityNumbers : NewAccountIdOfNumberCall(num)
    \/ ToStringCall
    \/ FromStringOfToString
    \/ \E text \in GivenStrings : FromStringCall(text)

InitEntity == FileAppendUnused /\ ReceiptUnused /\ TransactionUnused /\ EntityUnused

SpecEntity == InitEntity /\ [][NextEntity]_vars

----------------------------------------------------------------------------
\* Claims about FileAppendTransaction, checked under Spec

\* the number of chunks the frozen transaction holds requests for
NumGroups == Len(transactions) \div nodeCount

\* the transaction id embedded in the requests built for chunk i (0-based)
EmbeddedId(i) == transactions[i * nodeCount + 1].transactionId

\* the least n with n * size >= length
CeilDiv(length, size) ==
    CHOOSE n \in 0..length : n * size >= length /\ (n = 0 \/ (n - 1) * size < length)

PayloadLength == IF contents.isNull THEN 0 ELSE Len(contents.bytes)

\* freezeWith went through: the transaction is frozen and the chunk limit
\* did not stop the partition
FrozenWhole ==
    /\ frozen
    /\ (PayloadLength < chunkSize \/ CeilDiv(PayloadLength, chunkSize) <= maxChunks)

ExecuteCall == callKind \in {"execute", "executeAll"}

\* the running call failed on a chunk: at its dispatch or at its receipt
ChunkFailure ==
    /\ pc = "done"
    /\ ExecuteCall
    /\ result.kind = "error"
    /\ result.error \in {"PrecheckRejected", "ReceiptFailed"}

\* C1 (as claimed): within executeAll, when chunk i+1 is dispatched, the
\* receipt keyed by the identity of chunk i, the one embedded in the request
\* of chunk i, has been confirmed successful.
C1_ReceiptConfirmedBeforeNextChunk ==
    (pc = "precheck" /\ nextGroupIndex >= 1)
        => EmbeddedId(nextGroupIndex - 1) \in confirmed

\* C2 (as claimed): after freezing, the list of chunk identities holds exactly
\* one identity per chunk, entry 0 is the identity assigned before chunking,
\* and each next entry has the same payer and starts exactly 10 seconds later.
C2_OneIdentityPerChunk ==
    FrozenWhole =>
        /\ Len(transactionIds) = NumGroups
        /\ transactionIds[1] = EmbeddedId(0)
        /\ \A i \in 1..(Len(transactionIds) - 1) :
              /\ transactionIds[i + 1].accountId = transactionIds[i].accountId
              /\ transactionIds[i + 1].seconds = transactionIds[i].seconds + 10
              /\ transactionIds[i + 1].nanos = transactionIds[i].nanos

\* C3 (as claimed): when executeAll fails on chunk j, the caller receives the
\* outcomes of the confirmed chunks 0..j-1 together with the error.
C3_FailureDeliversPrefix ==
    (ChunkFailure /\ nextGroupIndex >= 1) =>
        /\ result.error # ""
        /\ result.value = responses

\* C3 (amended): when executeAll fails on chunk j, the call rejects with the
\* triggering error and delivers no outcome at all; the responses of chunks
\* 0..j-1 stay in the local list of the call, one per confirmed chunk, and
\* those chunks stay dispatched and confirmed.
C3_FailureDeliversErrorOnly ==
    ChunkFailure =>
        /\ result.error \in {"PrecheckRejected", "ReceiptFailed"}
        /\ result.value = <<>>
        /\ Len(responses) = nextGroupIndex
        /\ Len(dispatched) = nextGroupIndex + 1
        /\ \A i \in 1..Len(responses) :
              /\ responses[i].transactionId \in confirmed
              /\ dispatched[i].group = i - 1

\* C3 (witness): executeAll has failed on a chunk after confirming at least one
C3_Witness == ChunkFailure /\ nextGroupIndex >= 1

\* C4 (as claimed): one call of execute on a frozen multi-chunk transaction
\* dispatches only the current chunk and advances the cursor by one.
C4_ExecuteDispatchesOneChunk ==
    (pc = "done" /\ callKind = "execute" /\ result.kind = "value") =>
        /\ Len(dispatched) = 1
        /\ nextGroupIndex = 1

\* C4 (amended): one call of execute on a frozen k-chunk transaction runs
\* executeAll: it dispatches every chunk 0..k-1 once, in order, leaves the
\* cursor at k and hands on the response of chunk 0 alone.
C4_ExecuteRunsAllChunks ==
    (pc = "done" /\ callKind = "execute" /\ result.kind = "value") =>
        /\ Len(dispatched) = NumGroups
        /\ \A i \in 1..Len(dispatched) :
              /\ dispatched[i].group = i - 1
              /\ dispatched[i].request.transactionId = EmbeddedId(i - 1)
        /\ nextGroupIndex = NumGroups
        /\ Len(result.value) = 1
        /\ result.value[1].transactionId = dispatched[1].installed

\* C4 (witness): an execute call on a transaction of three or more chunks has
\* returned
C4_Witness ==
    /\ pc = "done"
    /\ callKind = "execute"
    /\ result.kind = "value"
    /\ NumGroups >= 3

\* C10 (as claimed): for every payload length L and chunk size C, freezing
\* partitions the payload into exactly ceil(L/C) chunks, and executeAll
\* dispatches exactly that many requests when every chunk succeeds.
C10_ChunkCountIsCeil ==
    /\ FrozenWhole => NumGroups = CeilDiv(PayloadLength, chunkSize)
    /\ (pc = "done" /\ callKind = "executeAll" /\ result.kind = "value"
        /\ FrozenWhole)
          => Len(dispatched) = CeilDiv(PayloadLength, chunkSize)

\* C10 (amended): for every payload length L >= 1 and chunk size C, a freeze
\* that the chunk limit does not stop partitions the payload into exactly
\* ceil(L/C) chunks, an empty or absent payload makes one chunk, and
\* executeAll dispatches exactly that many requests when every chunk succeeds.
C10_ChunkCountIsCeilOrOne ==
    LET expected == IF PayloadLength = 0 THEN 1
                    ELSE CeilDiv(PayloadLength, chunkSize)
    IN  /\ FrozenWhole => NumGroups = expected
        /\ (pc = "done" /\ callKind = "executeAll" /\ result.kind = "value"
            /\ FrozenWhole)
              => /\ Len(dispatched) = expected
                 /\ Len(result.value) = expected

\* C10 (witness): executeAll has returned on a payload longer than one chunk
\* whose length is no multiple of the chunk size
C10_Witness ==
    /\ pc = "done"
    /\ callKind = "executeAll"
    /\ result.kind = "value"
    /\ PayloadLength > chunkSize
    /\ PayloadLength % chunkSize # 0
    /\ Len(dispatched) >= 2

\* the last call was freezeWith and it ended
FreezeCallDone == pc = "done" /\ callKind = "freezeWith"

\* C11 (as claimed): for every payload length L, chunk size C and maximum
\* chunk count M, freezing fails with the payload-too-large error if and only
\* if ceil(L/C) > M.
C11_TooLargeIffCeilExceedsMax ==
    (FreezeCallDone /\ result.error \in {"", "TooManyChunks"}) =>
        ((result.error = "TooManyChunks")
            <=> (CeilDiv(PayloadLength, chunkSize) > maxChunks))

PayloadBytes == IF contents.isNull THEN <<>> ELSE contents.bytes

Min(a, b) == IF a <= b THEN a ELSE b

\* the bytes of the payload at the 0-based positions from (inclusive) to
\* (exclusive)
PayloadRange(from, to) == [k \in 1..(to - from) |-> PayloadBytes[from + k]]

\* the bytes carried by the requests built for chunks 0..n-1, in order
RECURSIVE ConcatChunks(_)
ConcatChunks(n) ==
    IF n = 0 THEN <<>>
    ELSE ConcatChunks(n - 1) \o transactions[(n - 1) * nodeCount + 1].data.contents

\* C12: the request built for chunk i carries exactly the bytes
\* [i*C, min((i+1)*C, L)) of the payload, for every node and in what is
\* dispatched for the chunk, and the chunks of a frozen transaction
\* concatenated in order are the payload.
C12_ChunkCarriesItsBytes ==
    FrozenWhole =>
        /\ \A i \in 0..(NumGroups - 1) : \A node \in 1..nodeCount :
              transactions[i * nodeCount + node].data.contents =
                  PayloadRange(i * chunkSize,
                               Min((i + 1) * chunkSize, PayloadLength))
        /\ \A k \in 1..Len(dispatched) :
              dispatched[k].request.data.contents =
                  PayloadRange(dispatched[k].group * chunkSize,
                               Min((dispatched[k].group + 1) * chunkSize,
                                   PayloadLength))
        /\ ConcatChunks(NumGroups) = PayloadBytes

\* C12 (witness): every chunk of a payload of three or more chunks, the last
\* one shorter than the chunk size, has been dispatched
C12_Witness ==
    /\ FrozenWhole
    /\ NumGroups >= 3
    /\ PayloadLength % chunkSize # 0
    /\ Len(dispatched) = NumGroups

\* C13: freezeWith on a transaction that is frozen already fails with the
\* already-frozen error and leaves the requests built, the list of chunk
\* identities and the assigned identity as they were.
C13_FreezeOnFrozenFails ==
    [][(Callable /\ frozen /\ callKind' = "freezeWith") =>
            /\ result'.kind = "error"
            /\ result'.error = "AlreadyFrozen"
            /\ transactions' = transactions
            /\ transactionIds' = transactionIds
            /\ transactionId' = transactionId
            /\ frozen'
      ]_vars

\* C13 (witness): freezeWith has failed on a frozen transaction of two or
\* more chunks
C13_Witness ==
    /\ FreezeCallDone
    /\ result.error = "AlreadyFrozen"
    /\ NumGroups >= 2
    /\ Len(transactionIds) >= 2

FreezeErrors == {"MissingIdentity", "TransactionIdNotSet", "TooManyChunks"}

\* C14 (as claimed): execute or executeAll on a transaction that is not
\* frozen fails with the not-frozen error and dispatches nothing.
C14_NotFrozenExecuteFails ==
    (ExecuteCall /\ ~frozenAtCall) =>
        /\ pc = "done"
        /\ result.error = "NotFrozen"
        /\ dispatched = <<>>

\* C14 (amended): execute or executeAll on a transaction that is not frozen
\* freezes it with the client first and never fails with a not-frozen error;
\* when that freeze fails the call fails with the error of the freeze and
\* dispatches nothing, otherwise the transaction is frozen and the call
\* dispatches its chunks as on a frozen transaction, all of them when it
\* returns.
C14_NotFrozenExecuteFreezesFirst ==
    (ExecuteCall /\ ~frozenAtCall) =>
        /\ result.error # "NotFrozen"
        /\ IF result.error \in FreezeErrors
           THEN pc = "done" /\ dispatched = <<>>
           ELSE /\ frozen
                /\ transactionCount = NumGroups
                /\ (pc = "done" /\ result.kind = "value") =>
                      (Len(dispatched) = NumGroups /\ NumGroups >= 1)

\* C14 (witness): executeAll begun on a transaction that was not frozen has
\* returned after dispatching two chunks or more
C14_Witness ==
    /\ callKind = "executeAll"
    /\ ~frozenAtCall
    /\ pc = "done"
    /\ result.kind = "value"
    /\ Len(dispatched) >= 2

SetterCalls == {"setFileId", "setContents", "setMaxChunks"}

\* C15: once the transaction is frozen, each of setFileId, setContents and
\* setMaxChunks fails and leaves the file id, the contents and the maximum
\* chunk count as they were.
C15_SettersFailOnceFrozen ==
    [][(Callable /\ frozen /\ callKind' \in SetterCalls) =>
            /\ result'.kind = "error"
            /\ result'.error = "Frozen"
            /\ fileId' = fileId
            /\ contents' = contents
            /\ maxChunks' = maxChunks
      ]_vars

\* C15 (witness): setFileId has failed on a frozen transaction whose file id
\* was never set
C15_Witness ==
    /\ frozen
    /\ pc = "done"
    /\ callKind = "setFileId"
    /\ result.error = "Frozen"
    /\ fileId = NullFileId

\* C16: within one call of executeAll a request that failed at its dispatch
\* or at its receipt is the last one the call sends: the call has ended with
\* the failure, the chunks were sent in order from 0, none with a greater
\* index than the failed one, and once the call has ended nothing is sent
\* until another call begins.
C16_NothingDispatchedAfterFailure ==
    /\ [](\A i \in 1..Len(dispatched) :
            /\ dispatched[i].group = i - 1
            /\ dispatched[i].status \in {"rejected", "failed"} =>
                  /\ i = Len(dispatched)
                  /\ pc = "done"
                  /\ ExecuteCall => ChunkFailure
                  /\ nextGroupIndex = dispatched[i].group)
    /\ [][pc = "done" =>
            (dispatched' = dispatched \/ (calls' = calls + 1 /\ dispatched' = <<>>))
        ]_vars

\* C16 (witness): a call on a transaction of three chunks or more has failed
\* on chunk 1, rejected at its dispatch
C16_Witness ==
    /\ ChunkFailure
    /\ NumGroups >= 3
    /\ Len(dispatched) = 2
    /\ dispatched[2].status = "rejected"

----------------------------------------------------------------------------
\* Claims about the receipt polling loop, checked under SpecReceipt and
\* SpecReceiptFair

ValidStartMs == txnValidStart.seconds * 1000 + txnValidStart.nanos \div 1000000

TimedOutOutcome == rpc = "done" /\ outcome.kind = "timeout"

Max(a, b) == IF a >= b THEN a ELSE b

\* C5 (as claimed): the deadline of the polling loop is the valid start of
\* the transaction id plus the validity window of the transaction itself.
C5_DeadlineIsOwnWindow ==
    rpc # "idle" => validUntilMs = ValidStartMs + validDurationSeconds * 1000

\* C5 (amended): the deadline of the polling loop is the valid start of the
\* transaction id plus 120 seconds, the longest validity window, whatever
\* the validity window of the transaction is; it is the end of the
\* transaction's own window only when that window is 120 seconds long.
C5_DeadlineIsMaxWindow ==
    rpc # "idle" =>
        /\ validUntilMs = ValidStartMs + 120000
        /\ (validUntilMs = ValidStartMs + validDurationSeconds * 1000)
              <=> (validDurationSeconds = 120)

\* C5 (witness): the deadline has ended the loop of a transaction whose own
\* validity window is 30 seconds
C5_Witness ==
    /\ TimedOutOutcome
    /\ validDurationSeconds = 30
    /\ polls >= 2

C7_PendingThenSuccessReturns ==
    (source.pending # Forever /\ source.final = 22 /\ rpc = "done") =>
        /\ outcome.kind = "receipt"
        /\ polls <= source.pending + 1

\* C7 (amended): with a receipt source that answers the first N polls with a
\* pending status and then SUCCESS, getReceipt performs at most N+1 polls; it
\* returns the receipt after exactly N+1 polls, unless after one of the N
\* pending polls the time plus the backoff is past the deadline, and then it
\* fails with the timeout after at most N polls.
C7_PendingThenSuccessOrTimeout ==
    (source.pending # Forever /\ source.final = 22) =>
        /\ polls <= source.pending + 1
        /\ rpc = "done" =>
              \/ /\ outcome.kind = "receipt"
                 /\ outcome.code = 22
                 /\ polls = source.pending + 1
              \/ /\ outcome.kind = "timeout"
                 /\ polls <= source.pending
                 /\ now + delay > validUntilMs

\* C7 (witness): two pending polls, then SUCCESS on the third
C7_Witness ==
    /\ source.pending = 2
    /\ source.final = 22
    /\ rpc = "done"
    /\ outcome.kind = "receipt"
    /\ polls = 3

\* C8 (as claimed): when every poll returns a pending status, the loop ends
\* with the timeout, no later than one poll latency after the deadline.
C8_TimeoutWithinOnePoll ==
    (source.pending = Forever /\ rpc = "done") =>
        /\ outcome.kind = "timeout"
        /\ now <= validUntilMs + lastLatency

\* C8 (amended): when every poll returns a pending status, the loop
\* eventually ends with the timeout; it ends no later than one poll latency
\* after the deadline or, when the call began less than the initial delay
\* before the deadline or after it, no later than one poll latency after the
\* call time plus the initial delay of 1000 ms.
C8_TimeoutEventually ==
    /\ (source.pending = Forever) ~> TimedOutOutcome
    /\ []((source.pending = Forever /\ rpc = "done") =>
            /\ outcome.kind = "timeout"
            /\ now <= Max(validUntilMs, callTime + 1000) + lastLatency)

\* C8 (witness): a call begun in time has polled three times or more, always
\* pending, and ended with the timeout after the deadline
C8_Witness ==
    /\ source.pending = Forever
    /\ TimedOutOutcome
    /\ polls >= 3
    /\ callTime + 1000 <= validUntilMs
    /\ now > validUntilMs

\* C9: after a pending status at attempt a the backoff is
\* floor(500 * r * (2^a - 1)) with r in [0,1); the loop sleeps, for exactly
\* the backoff, only when now + backoff is not past the deadline, and
\* otherwise fails with the timeout without sleeping or polling again; the
\* attempt counter goes up by one per pending poll slept on.
C9_BackoffAndDeadline ==
    [][/\ (rpc = "polling" /\ rpc' # "polling" /\ lastStatus' \in {21, 0}
           /\ outcome'.kind # "rejected") =>
            LET backoff == (500 * random' * (2 ^ attempt - 1)) \div RandomDen
            IN  /\ random' \in 0..(RandomDen - 1)
                /\ delay' = backoff
                /\ polls' = polls
                /\ attempt' = attempt
                /\ IF now' + backoff <= validUntilMs
                   THEN rpc' = "sleeping" /\ outcome' = outcome
                   ELSE rpc' = "done" /\ outcome'.kind = "timeout"
       /\ rpc = "sleeping" =>
            /\ rpc' = "polling"
            /\ now' = now + delay
            /\ now' <= validUntilMs
            /\ attempt' = attempt + 1
            /\ polls' = polls + 1
       /\ rpc' \in {"polling", "sleeping"} => attempt' = polls' - 1
       /\ TimedOutOutcome => (rpc' = "done" /\ polls' = polls /\ now' = now)
      ]_vars

\* C9 (witness): the loop has slept at least twice and then ended with the
\* timeout, before the deadline itself, on a positive backoff
C9_Witness ==
    /\ TimedOutOutcome
    /\ attempt >= 2
    /\ delay > 0
    /\ now <= validUntilMs

----------------------------------------------------------------------------
\* Claims about Transaction, checked under SpecTx, and about the precheck
\* codes, checked under SpecErrors

SigPairs == inner.sigmap.sigpair

\* C17: each invocation of execute issues exactly one unary call, to the
\* node of the transaction and with its method; the call made, the
\* invocation issues no other, and when the response is rejected at
\* precheck the invocation ends at once with a HederaError of a code that
\* is not accepted.
C17_OneCallPerExecute ==
    /\ [](/\ Len(networkCalls) = executes
          /\ \A i \in 1..Len(networkCalls) :
                /\ networkCalls[i].node = txnNode
                /\ networkCalls[i].method = method)
    /\ [][/\ executes' = executes + 1 =>
                networkCalls' = Append(networkCalls,
                                       [node |-> txnNode, method |-> method])
          /\ executes' = executes => networkCalls' = networkCalls
          /\ (epc = "calling" /\ executed' # executed) =>
                /\ epc' = "done"
                /\ networkCalls' = networkCalls
                /\ executed'.kind = "HederaError" =>
                      executed'.code \notin {ResponseCodeEnum.OK,
                                             ResponseCodeEnum.SUCCESS}
         ]_vars

\* C17 (witness): a second invocation of execute has made the second call
\* and ended on a precheck rejection
C17_Witness ==
    /\ epc = "done"
    /\ executed = HederaError(ResponseCodeEnum.INVALID_SIGNATURE)
    /\ executes = 2
    /\ Len(networkCalls) = 2

\* C18: throwIfExceptional returns for a code if and only if the code is OK
\* or SUCCESS, or UNKNOWN and unknownOk is passed as true; for every other
\* code it throws a HederaError carrying exactly that code.
C18_PrecheckCodeAccepted ==
    checked.called =>
        /\ (checked.thrown = NoOutcome) <=>
              \/ checked.code \in {ResponseCodeEnum.OK, ResponseCodeEnum.SUCCESS}
              \/ (checked.code = ResponseCodeEnum.UNKNOWN /\ checked.unknownOk)
        /\ checked.thrown # NoOutcome =>
              /\ checked.thrown.kind = "HederaError"
              /\ checked.thrown.code = checked.code

\* C18 (witness): throwIfExceptional was called with UNKNOWN without
\* unknownOk and threw
C18_Witness ==
    /\ checked.called
    /\ checked.code = ResponseCodeEnum.UNKNOWN
    /\ ~checked.unknownOk
    /\ checked.thrown.kind = "HederaError"

\* C19: over every step of sign, signWith, execute, getReceipt (and
\* fromBytes) the body bytes stay as they are and the signature list stays
\* or gets one pair appended after the pairs it has; sign and a signWith
\* with a synchronous signer append exactly one pair, that of the call,
\* whatever keys are in the list already; a signWith with an asynchronous
\* signer appends nothing before its signer resolves and then exactly the
\* pair of the call; no other step changes the list.
C19_BodyFixedSignaturesAppend ==
    [][LET after == inner'.sigmap.sigpair
           appended == /\ Len(after) = Len(SigPairs) + 1
                       /\ SubSeq(after, 1, Len(SigPairs)) = SigPairs
       IN  /\ inner'.bodybytes = inner.bodybytes
           /\ after = SigPairs \/ appended
           /\ (signs' = signs + 1 /\ pendingSigns' = pendingSigns) =>
                 /\ appended
                 /\ \E k \in PrivateKeys :
                       after[Len(after)] =
                           [pubKeyPrefix |-> PublicKeyOf(k),
                            ed25519 |-> Ed25519Sign(k, inner.bodybytes)]
           /\ (signs' = signs + 1 /\ pendingSigns' # pendingSigns) =>
                 after = SigPairs
           /\ (signs' = signs /\ Len(pendingSigns') = Len(pendingSigns)) =>
                 after = SigPairs
           /\ Len(pendingSigns') < Len(pendingSigns) =>
                 \/ after = SigPairs
                 \/ /\ appended
                    /\ \E i \in 1..Len(pendingSigns) :
                          /\ pendingSigns' = Remove(pendingSigns, i)
                          /\ after[Len(after)] =
                                [pubKeyPrefix |-> pendingSigns[i].publicKey,
                                 ed25519 |-> pendingSigns[i].signature]
      ]_vars

\* C19 (witness): the list holds two equal pairs, of the same key, and
\* execute and getReceipt have both ended
C19_Witness ==
    /\ Len(SigPairs) = 2
    /\ SigPairs[1] = SigPairs[2]
    /\ signs = 2
    /\ epc = "done"
    /\ rpc = "done"

BytesOfCase(case) ==
    SerializeBinary(
        [bodybytes |-> EncodeBody(Body(NodeId, PayerId, [seconds |-> 50, nanos |-> 0],
                                       60, case)),
         sigmap |-> NoSigMap])

\* the data cases the switch of methodFromTxn lists
RecognizedCases == {DataCase[n] : n \in DOMAIN DataCase}
                        \ {DataCase.DATA_NOT_SET, DataCase.CONSENSUSCREATETOPIC}

\* data cases outside the switch: none set, and the consensus cases that
\* come after the ones the switch lists (fields 1..6 of the body are not
\* data cases)
UnrecognizedCases ==
    {DataCase.DATA_NOT_SET, DataCase.CONSENSUSCREATETOPIC,
     DataCase.CONSENSUSCREATETOPIC + 1}

\* C21: fromBytes of a body whose data case is one of the recognized ones is
\* a Transaction with the method the switch gives for that case, whatever
\* the other fields are; fromBytes of a body with another data case, or
\* with none, throws and delivers no Transaction and no method.
C21_MethodFromRecognizedTag ==
    /\ \A case \in RecognizedCases :
          /\ FromBytes(BytesOfCase(case)).kind = "tx"
          /\ FromBytes(BytesOfCase(case)).error = ""
          /\ FromBytes(BytesOfCase(case)).method = MethodOfCase[case]
    /\ FromBytes(BytesOfCase(DataCase.CRYPTOTRANSFER)).method
            = "CryptoService.cryptoTransfer"
    /\ FromBytes(BytesOfCase(DataCase.FILEAPPEND)).method
            = "FileService.appendContent"
    /\ FromBytes(BytesOfCase(DataCase.FREEZE)).method = "FreezeService.freeze"
    /\ \A case \in UnrecognizedCases :
          /\ FromBytes(BytesOfCase(case)).kind = "error"
          /\ FromBytes(BytesOfCase(case)).method = ""
          /\ FromBytes(BytesOfCase(case)).error =
                IF case = DataCase.DATA_NOT_SET
                THEN "transaction body missing" ELSE "unsupported body case"
    /\ decoded.kind = "tx" =>
          /\ DecodeBody(decoded.inner.bodybytes).dataCase \in RecognizedCases
          /\ decoded.method =
                MethodOfCase[DecodeBody(decoded.inner.bodybytes).dataCase]
    /\ decoded.kind = "error" =>
          /\ decoded.error # ""
          /\ decoded.method = ""
          /\ decoded.node = NullAccountId

\* C21 (witness): fromBytes was given a body of a data case the switch does
\* not list, and threw
C21_Witness ==
    /\ decoded.kind = "error"
    /\ decoded.error = "unsupported body case"
    /\ ~decoded.own

\* an error that carries a status code: only HederaError has the fields
CarriesCode(o) == o.kind = "HederaError"

\* the name an error carries is the name of its code, "UNKNOWN" when the
\* code has none
CarriesNameOfCode(o) ==
    \/ /\ o.codeName \in DOMAIN ResponseCodeEnum
       /\ ResponseCodeEnum[o.codeName] = o.code
    \/ /\ o.codeName = "UNKNOWN"
       /\ \A name \in DOMAIN ResponseCodeEnum : ResponseCodeEnum[name] # o.code

\* execute ended with a failure that is not the failure of the call itself
ExecuteFailed == epc = "done" /\ executed.kind \notin {"none", "transactionId", "rejected"}

\* getReceipt ended with a failure that is not the failure of the query itself
GetReceiptFailed == rpc = "done" /\ outcome.kind \notin {"none", "receipt", "rejected"}

C22_WitnessConsensusFailure ==
    /\ GetReceiptFailed
    /\ outcome.kind = "HederaError"
    /\ outcome.code = ResponseCodeEnum.INVALID_SIGNATURE

\* C23: no step of getReceipt, whichever status its poll returns and whether
\* it ends with a receipt, a failure or the timeout, changes the body bytes
\* and the signature list of the transaction, its identity, its node or its
\* validity window.
C23_ReceiptLeavesTransaction ==
    [][/\ inner' = inner
       /\ txnAccountId' = txnAccountId
       /\ txnValidStart' = txnValidStart
       /\ txnNode' = txnNode
       /\ validDurationSeconds' = validDurationSeconds]_vars

\* C23 (witness): getReceipt of a signed transaction ended with a consensus
\* failure after a pending poll
C23_Witness ==
    /\ rpc = "done"
    /\ polls >= 2
    /\ outcome.kind = "HederaError"
    /\ Len(SigPairs) = 1
    /\ inner.bodybytes # <<>>

\* C23 (witness): getReceipt of a signed transaction timed out
C23_WitnessTimeout ==
    /\ TimedOutOutcome
    /\ polls >= 2
    /\ Len(SigPairs) = 1

\* the string is a decimal numeral without a sign and without leading zeros
IsCanonicalNumber(chars) ==
    /\ IsNumber(chars)
    /\ Len(chars) > 1 => chars[1] # "0"

\* C24: toString of an id is the decimal numerals of its shard, realm and
\* num joined by two dots, and fromString of that string is the id again;
\* the constructor given one number, and fromString given a bare number,
\* make the id of shard 0 and realm 0 with that number.
C24_StringRoundTrip ==
    /\ entity.op \in {"toString", "roundTrip"} =>
          /\ Cardinality({i \in 1..Len(entity.text) : entity.text[i] = "."}) = 2
          /\ Len(Split(entity.text)) = 3
          /\ \A i \in 1..3 : IsCanonicalNumber(Split(entity.text)[i])
          /\ ParseNumber(Split(entity.text)[1]) = entity.id.shard
          /\ ParseNumber(Split(entity.text)[2]) = entity.id.realm
          /\ ParseNumber(Split(entity.text)[3]) = entity.id.num
    /\ entity.op = "roundTrip" =>
          /\ ~entity.parsed.error
          /\ entity.parsed.id = entity.id
    /\ entity.op = "newOfNumber" =>
          entity.id = [shard |-> 0, realm |-> 0, num |-> entity.arg]
    /\ (entity.op = "fromString" /\ IsCanonicalNumber(entity.text)) =>
          /\ ~entity.parsed.error
          /\ entity.parsed.id.shard = 0
          /\ entity.parsed.id.realm = 0
          /\ NumberToString(entity.parsed.id.num) = entity.text
    /\ AccountIdToString(NewAccountId(50, 150, 520))
            = <<"5", "0", ".", "1", "5", "0", ".", "5", "2", "0">>
    /\ AccountIdFromString(<<"1", "0", ".", "5", "0", ".", "2", "5", "0", "5", "0">>)
            = [error |-> FALSE, id |-> [shard |-> 10, realm |-> 50, num |-> 25050]]
    /\ AccountIdFromString(<<"2", "5", "0", "5", "0">>)
            = [error |-> FALSE, id |-> [shard |-> 0, realm |-> 0, num |-> 25050]]

\* C24 (witness): an id of three different numbers went through toString and
\* fromString
C24_Witness ==
    /\ entity.op = "roundTrip"
    /\ entity.id = [shard |-> 10, realm |-> 50, num |-> 25050]

\* C24 (witness): fromString was given a bare number
C24_WitnessBareNumber ==
    /\ entity.op = "fromString"
    /\ entity.text = <<"2", "5", "0", "5", "0">>

\* C25 (as claimed): for every chunk dispatched by executeAll, the identity
\* installed when the chunk is dispatched, under which its receipt is
\* awaited, is the identity embedded in the request freezeWith built for
\* that chunk.
C25_InstalledIsEmbedded ==
    \A k \in 1..Len(dispatched) :
        /\ dispatched[k].installed = dispatched[k].request.transactionId
        /\ dispatched[k].installed = EmbeddedId(dispatched[k].group)
        /\ (pc = "receipt" /\ k = Len(dispatched)) =>
                response.transactionId = dispatched[k].request.transactionId

\* the signature pair a pending signWith call adds when its signer resolves
PairOf(p) == [pubKeyPrefix |-> p.publicKey, ed25519 |-> p.signature]

\* the pair sign(privateKey) adds to a transaction of the given body bytes
PairOfKey(privateKey, bodybytes) ==
    [pubKeyPrefix |-> PublicKeyOf(privateKey),
     ed25519 |-> Ed25519Sign(privateKey, bodybytes)]

\* how often the pair x is in the signature list or awaited by a pending call
Occurrences(in, pending, x) ==
    Cardinality({i \in 1..Len(in.sigmap.sigpair) : in.sigmap.sigpair[i] = x})
        + Cardinality({i \in 1..Len(pending) : PairOf(pending[i]) = x})

\* the pairs the keys at hand make for the transaction
KeyPairs == {PairOfKey(k, inner.bodybytes) : k \in PrivateKeys}

\* C26: with any number of signWith calls awaiting their signers and
\* whatever the order the signers resolve in, every call's pair is awaited
\* or in the list, once per call: a signWith call adds one occurrence of its
\* pair (in the list at once for a synchronous signer, awaited for an
\* asynchronous one, and the pair is the same), a resolving signer moves its
\* pair to the end of the list and keeps every pair that is there, and only
\* a rejecting signer takes a pair away.
C26_EveryPairOnce ==
    /\ [](/\ \A i \in 1..Len(pendingSigns) : PairOf(pendingSigns[i]) \in KeyPairs
          /\ \A i \in 1..Len(SigPairs) : SigPairs[i] \in KeyPairs
          /\ Len(SigPairs) + Len(pendingSigns) <= signs)
    /\ [][LET after == inner'.sigmap.sigpair
          IN  /\ signs' = signs + 1 =>
                    \E k \in PrivateKeys :
                        /\ \A x \in KeyPairs :
                              Occurrences(inner', pendingSigns', x) =
                                  Occurrences(inner, pendingSigns, x)
                                    + (IF x = PairOfKey(k, inner.bodybytes)
                                       THEN 1 ELSE 0)
                        /\ \/ inner' = AddSignature(inner,
                                                    Ed25519Sign(k, inner.bodybytes),
                                                    PublicKeyOf(k))
                           \/ /\ Len(pendingSigns') = Len(pendingSigns) + 1
                              /\ AddSignature(inner,
                                     pendingSigns'[Len(pendingSigns')].signature,
                                     pendingSigns'[Len(pendingSigns')].publicKey)
                                   = AddSignature(inner,
                                                  Ed25519Sign(k, inner.bodybytes),
                                                  PublicKeyOf(k))
              /\ (signs' = signs /\ inner' # inner) =>
                    /\ Len(pendingSigns') = Len(pendingSigns) - 1
                    /\ Len(after) = Len(SigPairs) + 1
                    /\ SubSeq(after, 1, Len(SigPairs)) = SigPairs
                    /\ \A x \in KeyPairs :
                          Occurrences(inner', pendingSigns', x) =
                              Occurrences(inner, pendingSigns, x)
              /\ (signs' = signs /\ inner' = inner) =>
                    \/ pendingSigns' = pendingSigns
                    \/ \E i \in 1..Len(pendingSigns) :
                          pendingSigns' = Remove(pendingSigns, i)
         ]_vars

\* C26 (witness): two signWith calls awaited their signers at once, the
\* signer of the later call resolved first, and both pairs are in the list
C26_Witness ==
    /\ overtaken
    /\ signs = 2
    /\ pendingSigns = <<>>
    /\ Len(SigPairs) = 2
    /\ SigPairs[1] # SigPairs[2]

====
